---- MODULE Spec2Model ----
(***************************************************************************)
(* Message visibility index of the hide-helper extension.                  *)
(*                                                                         *)
(*   worker.js        MessageIndex, buildMessageIndex, processMessageRange *)
(*                    and the worker's onmessage handler                   *)
(*   messageindex.js  MessageIndexManager: pending table, memoized build,  *)
(*                    background / local execution, timeouts              *)
(*                                                                         *)
(* Positions are 0-based as in the source; messages[j] of the source is    *)
(* messages[j + 1] of the TLA+ sequence.  The timestamp lastUpdate is not  *)
(* modelled: no decision of the code reads it.                             *)
(***************************************************************************)
EXTENDS Integers, Sequences, FiniteSets, TLC

\* Longest message sequence explored.
MaxLen == 2
\* Largest explicit message id explored (0 is a legal id, and is falsy).
MaxId == 1
\* Number of calls made on one Manager.
MaxCalls == 2
\* Longest message sequence explored with callers that do not wait (Spec).
MaxChat == 1
\* Largest batch size the chunked scan is run with.
MaxBatch == 2
\* Number of indexed hide requests the host makes in SpecRange.
MaxRequests == 1
\* Longest chat HideHelperCore is run on (SpecCore).
MaxCore == 5
\* Largest worker count (navigator.hardwareConcurrency) of HideHelperCore.
MaxWorkers == 4

\* message.id of a message that carries no id (undefined).
NoId == -1
\* Map.get of a key that is absent (undefined).
NoPos == -1

Message == [id : {NoId} \cup (0..MaxId), is_system : BOOLEAN]

RECURSIVE SeqsUpTo(_)
SeqsUpTo(n) ==
    IF n = 0 THEN {<<>>}
    ELSE SeqsUpTo(n - 1) \cup [1..n -> Message]

MessageSeqs == SeqsUpTo(MaxLen)

\* messages[j]: absent (undefined) outside 0 .. length-1.
HasMessage(messages, j) == j >= 0 /\ j < Len(messages)

\* `message.id || position`: an absent id and the id 0 are both falsy.
MessageId(message, position) ==
    IF message.id = NoId \/ message.id = 0 THEN position ELSE message.id

\* Map.set(key, value)
MapSet(map, key, value) == (key :> value) @@ map

\* Map.get(key)
MapGet(map, key) == IF key \in DOMAIN map THEN map[key] ELSE NoPos

EmptyMap == [k \in {} |-> NoPos]

\* new MessageIndex()
NewMessageIndex ==
    [hidden |-> {}, visible |-> {}, systemMessages |-> {},
     messagePositions |-> EmptyMap]

\* this.index = null
NullIndex == [null |-> TRUE]

\* MessageIndex.addMessage
AddMessage(index, message, position) ==
    LET messageId == MessageId(message, position)
        placed == [index EXCEPT
                     !.messagePositions = MapSet(@, messageId, position)]
    IN  IF message.is_system
        THEN [placed EXCEPT !.hidden = @ \cup {messageId},
                            !.systemMessages = @ \cup {messageId}]
        ELSE [placed EXCEPT !.visible = @ \cup {messageId}]

\* messages.forEach((message, position) => index.addMessage(message, position))
RECURSIVE AddFrom(_, _, _)
AddFrom(messages, index, position) ==
    IF position >= Len(messages) THEN index
    ELSE AddFrom(messages,
                 AddMessage(index, messages[position + 1], position),
                 position + 1)

\* worker.js buildMessageIndex
BuildMessageIndex(messages) == AddFrom(messages, NewMessageIndex, 0)

\* updateMessageState that unhides without removing from hidden.
UpdateMessageState_KeepsHidden(index, messageId, isHidden) ==
    IF isHidden
    THEN [index EXCEPT !.visible = @ \ {messageId},
                       !.hidden = @ \cup {messageId}]
    ELSE [index EXCEPT !.visible = @ \cup {messageId}]

\* MessageIndex.updateMessageState
UpdateMessageState(index, messageId, isHidden) ==
    IF isHidden
    THEN [index EXCEPT !.visible = @ \ {messageId},
                       !.hidden = @ \cup {messageId}]
    ELSE [index EXCEPT !.hidden = @ \ {messageId},
                       !.visible = @ \cup {messageId}]

\* MessageIndex.getMessageState
GetMessageState(index, messageId) ==
    [isHidden |-> messageId \in index.hidden,
     isVisible |-> messageId \in index.visible,
     isSystem |-> messageId \in index.systemMessages,
     position |-> MapGet(index.messagePositions, messageId)]

\* One entry of an updates Map; the sequence keeps the insertion order.
UpdateEntry(messageId, position, isHidden) ==
    [id |-> messageId, position |-> position, isHidden |-> isHidden]

\* Keys of an updates Map.
UpdateKeys(updates) == {updates[k].id : k \in DOMAIN updates}

\* Body of the inner loop of processMessageRange for one position j.
ScanPosition(messages, acc, j, unhide) ==
    IF ~HasMessage(messages, j) THEN acc
    ELSE LET messageId == MessageId(messages[j + 1], j)
             state == GetMessageState(acc.index, messageId)
             shouldUpdate == IF unhide THEN state.isHidden ELSE state.isVisible
         IN  IF shouldUpdate
             THEN [updates |-> Append(acc.updates,
                                      UpdateEntry(messageId, j, ~unhide)),
                   index |-> UpdateMessageState(acc.index, messageId, ~unhide)]
             ELSE acc

\* for (let j = i; j <= chunkEnd; j++)
RECURSIVE ScanChunk(_, _, _, _, _)
ScanChunk(messages, acc, j, chunkEnd, unhide) ==
    IF j > chunkEnd THEN acc
    ELSE ScanChunk(messages, ScanPosition(messages, acc, j, unhide),
                   j + 1, chunkEnd, unhide)

\* A minimum that always takes its first argument.
Min_Left(a, b) == a

\* Math.min
Min(a, b) == IF a < b THEN a ELSE b
\* A maximum that always takes its second argument.
Max_Second(a, b) == b

\* Math.max
Max(a, b) == IF a > b THEN a ELSE b

\* for (let i = start; i <= end; i += batchSize)
RECURSIVE ScanBatches(_, _, _, _, _, _)
ScanBatches(messages, acc, i, end, unhide, batch) ==
    IF i > end THEN acc
    ELSE ScanBatches(messages,
                     ScanChunk(messages, acc, i,
                               Min(i + batch - 1, end), unhide),
                     i + batch, end, unhide, batch)

\* const batchSize = 50
batchSize == 50

\* worker.js processMessageRange: returns {updates, index}
ProcessMessageRange(messages, index, start, end, unhide) ==
    ScanBatches(messages, [updates |-> <<>>, index |-> index],
                start, end, unhide, batchSize)

\* Loop body of buildIndexSync's forEach.
SyncAdd(index, msg, pos) ==
    LET messageId == MessageId(msg, pos)
        placed == [index EXCEPT
                     !.messagePositions = MapSet(@, messageId, pos)]
    IN  IF msg.is_system
        THEN [placed EXCEPT !.hidden = @ \cup {messageId},
                            !.systemMessages = @ \cup {messageId}]
        ELSE [placed EXCEPT !.visible = @ \cup {messageId}]

RECURSIVE SyncAddFrom(_, _, _)
SyncAddFrom(messages, index, pos) ==
    IF pos >= Len(messages) THEN index
    ELSE SyncAddFrom(messages, SyncAdd(index, messages[pos + 1], pos), pos + 1)

\* MessageIndexManager.buildIndexSync: the index it assigns to this.index
\* and returns wrapped as {index}.
BuildIndexSync(messages) == SyncAddFrom(messages, NewMessageIndex, 0)

\* Loop body of processRangeSync for one position i.
SyncScanPosition(messages, acc, i, unhide) ==
    IF ~HasMessage(messages, i) THEN acc
    ELSE LET messageId == MessageId(messages[i + 1], i)
             shouldUpdate == IF unhide THEN messageId \in acc.index.hidden
                                       ELSE messageId \in acc.index.visible
         IN  IF shouldUpdate
             THEN [updates |-> Append(acc.updates,
                                      UpdateEntry(messageId, i, ~unhide)),
                   index |-> IF unhide
                             THEN [acc.index EXCEPT
                                     !.hidden = @ \ {messageId},
                                     !.visible = @ \cup {messageId}]
                             ELSE [acc.index EXCEPT
                                     !.visible = @ \ {messageId},
                                     !.hidden = @ \cup {messageId}]]
             ELSE acc

\* for (let i = start; i <= end; i++)
RECURSIVE SyncScan(_, _, _, _, _)
SyncScan(messages, acc, i, end, unhide) ==
    IF i > end THEN acc
    ELSE SyncScan(messages, SyncScanPosition(messages, acc, i, unhide),
                  i + 1, end, unhide)

\* MessageIndexManager.processRangeSync on the snapshot thisIndex:
\* [updates, index]; the caller wraps it as {result: {updates}, index}.
ProcessRangeSync(thisIndex, messages, start, end, unhide) ==
    LET index == IF thisIndex = NullIndex THEN BuildIndexSync(messages)
                                          ELSE thisIndex
    IN  SyncScan(messages, [updates |-> <<>>, index |-> index],
                 start, end, unhide)

(***************************************************************************)
(* State.                                                                  *)
(***************************************************************************)
VARIABLES
    messages,           \* the host's chat: sequence of Message
    storeImpl,          \* SpecStore: which side's code runs, "worker" or "manager"
    storeIndex,         \* SpecStore: the index the operations act on
    storeOps,           \* SpecStore: the last range operation applied, if any
    worker,             \* this.worker is not null
    index,              \* this.index
    indexPromise,       \* this.indexPromise: [state, value]
    pendingOperations,  \* this.pendingOperations: operation id -> continuation
    operationId,        \* this.operationId
    toWorker,           \* messages posted to the worker, not yet handled
    fromWorker,         \* messages posted by the worker, not yet handled
    calls,              \* the calls made on the Manager, in call order
    builds,             \* number of buildIndex operations handed to sendToWorker
    twin,               \* SpecAwaited: a Manager without worker, given the same calls
    lastRead,           \* SpecReads: the last read made through the public API
    request             \* SpecRange, SpecCore: the host's last hide request

storeVars == <<storeImpl, storeIndex, storeOps>>
mgrVars == <<worker, index, indexPromise, pendingOperations, operationId,
             toWorker, fromWorker, calls, builds, twin, lastRead, request>>
vars == <<messages, storeVars, mgrVars>>

\* The value undefined.
Undefined == [undefined |-> TRUE]

\* new Error(message)
ErrorOf(message) == [error |-> message]

\* obj.name of an object, undefined when the object has no such field.
Field(obj, name) == IF name \in DOMAIN obj THEN obj[name] ELSE Undefined

\* A promise: state "null" (no promise yet), "pending", "resolved", "rejected".
\* The value is recorded as it was when the promise settled.
NullPromise == [state |-> "null", value |-> Undefined]

\* The Manager without worker that runs beside the modelled one.
NewTwin ==
    [index |-> NullIndex, indexPromise |-> NullPromise, last |-> Undefined]

\* No read has been made.
NoRead ==
    [op |-> "none", id |-> 0, flag |-> FALSE, position |-> NoPos,
     stats |-> [null |-> TRUE], hadIndex |-> FALSE, known |-> FALSE]

\* The host has made no hide request.
NoRequest ==
    [op |-> "none", start |-> 0, end |-> 0, unhide |-> FALSE,
     hideAfterIndex |-> 0, workers |-> 0, changes |-> <<>>, threw |-> FALSE]

\* constructor(): the fields before initWorker().
MgrFresh ==
    /\ index = NullIndex
    /\ indexPromise = NullPromise
    /\ pendingOperations = EmptyMap
    /\ operationId = 0
    /\ toWorker = <<>>
    /\ fromWorker = <<>>
    /\ calls = <<>>
    /\ builds = 0
    /\ twin = NewTwin
    /\ lastRead = NoRead
    /\ request = NoRequest

\* Positions a range bound may take: one past the longest sequence, so that
\* the scan meets positions without a message.
Positions == 0..MaxLen

\* The chats of the host: its messages carry no id of their own.
HostChats == {m \in SeqsUpTo(MaxChat) : \A j \in DOMAIN m : m[j].id = NoId}

(***************************************************************************)
(* SpecStore: Index Store and Range Processor as called directly,          *)
(* on the worker's code and on the Manager's local code.                   *)
(***************************************************************************)
StoreInit ==
    /\ messages \in MessageSeqs
    /\ storeImpl \in {"worker", "manager"}
    /\ storeIndex = NullIndex
    /\ storeOps = <<>>
    /\ worker = FALSE
    /\ MgrFresh

\* build(messages): buildMessageIndex / buildIndexSync
StoreBuild ==
    /\ storeIndex = NullIndex
    /\ storeOps = <<>>
    /\ storeIndex' = IF storeImpl = "worker" THEN BuildMessageIndex(messages)
                                             ELSE BuildIndexSync(messages)
    /\ UNCHANGED <<messages, storeImpl, storeOps, mgrVars>>

\* The record kept of a range operation: repeats says that it has the range
\* and polarity of the operation before it, prevChanged that the operation
\* before it had updates.
RangeOp(start, end, unhide, before, res) ==
    [start |-> start, end |-> end, unhide |-> unhide,
     before |-> before, updates |-> res.updates, after |-> res.index,
     repeats |-> /\ storeOps # <<>>
                 /\ storeOps[1].start = start
                 /\ storeOps[1].end = end
                 /\ storeOps[1].unhide = unhide,
     prevChanged |-> storeOps # <<>> /\ storeOps[1].updates # <<>>]

\* processRange(messages, index, start, end, unhide) on the worker's code
StoreRangeWorker(start, end, unhide) ==
    /\ storeImpl = "worker"
    /\ storeIndex # NullIndex
    /\ LET res == ProcessMessageRange(messages, storeIndex, start, end, unhide)
       IN  /\ storeIndex' = res.index
           /\ storeOps' = <<RangeOp(start, end, unhide, storeIndex, res)>>
    /\ UNCHANGED <<messages, storeImpl, mgrVars>>

\* processRangeSync(messages, start, end, unhide); with no snapshot yet it
\* builds one first (this.index || this.buildIndexSync(messages).index)
StoreRangeSync(start, end, unhide) ==
    /\ storeImpl = "manager"
    /\ LET before == IF storeIndex = NullIndex THEN BuildIndexSync(messages)
                                               ELSE storeIndex
           res == ProcessRangeSync(storeIndex, messages, start, end, unhide)
       IN  /\ storeIndex' = res.index
           /\ storeOps' = <<RangeOp(start, end, unhide, before, res)>>
    /\ UNCHANGED <<messages, storeImpl, mgrVars>>

StoreNext ==
    \/ StoreBuild
    \/ \E start \in Positions, end \in Positions, unhide \in BOOLEAN :
          /\ start <= end
          /\ StoreRangeWorker(start, end, unhide)
    \/ \E start \in Positions, end \in Positions, unhide \in BOOLEAN :
          /\ start <= end
          /\ StoreRangeSync(start, end, unhide)

SpecStore == StoreInit /\ [][StoreNext]_vars

(***************************************************************************)
(* SpecCore: HideHelperCore.jumpScanHide and parallelHide on chats short   *)
(* enough to have no hiddenBitmap (chat.length <= bitmapThreshold).        *)
(***************************************************************************)
CoreChats == {m \in SeqsUpTo(MaxCore) : \A j \in DOMAIN m : m[j].id = NoId}

\* checkHidden(index) with hiddenBitmap null
CheckHidden(chat, idx) == chat[idx + 1].is_system

\* setHidden(index, hide): chat[index].is_system = hide
SetHidden(chat, idx, hide) == [chat EXCEPT ![idx + 1].is_system = hide]

\* Math.max(10, Math.floor(chat.length * 0.01))
SkipThreshold(chat) == Max(10, Len(chat) \div 100)

\* Phase 1 of jumpScanHide from position i: the chat and the skipCounter it
\* leaves.
RECURSIVE JumpPhase1(_, _, _)
JumpPhase1(chat, i, skipCounter) ==
    IF i < 0 THEN [chat |-> chat, skipCounter |-> skipCounter]
    ELSE IF CheckHidden(chat, i)
    THEN JumpPhase1(chat,
                    i - (IF skipCounter + 1 > 3 THEN SkipThreshold(chat)
                                                ELSE 1),
                    skipCounter + 1)
    ELSE JumpPhase1(SetHidden(chat, i, TRUE), i - 1, 0)

\* Phase 2 of jumpScanHide from position i; skipCounter is the one Phase 1
\* left.
RECURSIVE JumpPhase2(_, _, _)
JumpPhase2(chat, i, skipCounter) ==
    IF i >= Len(chat) THEN chat
    ELSE IF ~CheckHidden(chat, i)
    THEN JumpPhase2(chat,
                    i + (IF skipCounter + 1 > 3 THEN SkipThreshold(chat)
                                                ELSE 1),
                    skipCounter + 1)
    ELSE JumpPhase2(SetHidden(chat, i, FALSE), i + 1, 0)

\* jumpScanHide(hideAfterIndex): the chat it leaves.
JumpScan(chat, hideAfterIndex) ==
    LET first == JumpPhase1(chat, hideAfterIndex, 0)
    IN  JumpPhase2(first.chat, hideAfterIndex + 1, first.skipCounter)

\* HideHelperCore.jumpScanHide(hideAfterIndex)
JumpScanHide(hideAfterIndex) ==
    /\ messages' = JumpScan(messages, hideAfterIndex)
    /\ request' = [NoRequest EXCEPT !.op = "jumpScanHide",
                                    !.hideAfterIndex = hideAfterIndex]
    /\ UNCHANGED <<lastRead, storeVars, worker, index, indexPromise,
                   pendingOperations, operationId, toWorker, fromWorker,
                   calls, builds, twin>>

\* Math.ceil(a / b)
CeilDiv(a, b) == (a + b - 1) \div b

\* chat.slice(start, end + 1)
Slice(chat, start, end) == SubSeq(chat, start + 1, end + 1)

\* chat[x]?.is_system in the segment worker: undefined, so falsy, outside
\* the slice.
SliceHidden(slice, x) == x >= 0 /\ x < Len(slice) /\ slice[x + 1].is_system

\* One change a segment worker reports.
Change(idx, hide) == [index |-> idx, hide |-> hide]

\* workerCode, isForward: for (let i = hideAfterIndex; i >= 0; i--)
RECURSIVE ForwardChanges(_, _, _)
ForwardChanges(slice, startIdx, i) ==
    IF i < 0 THEN <<>>
    ELSE (IF SliceHidden(slice, i - startIdx) THEN <<>>
          ELSE <<Change(startIdx + i, TRUE)>>)
         \o ForwardChanges(slice, startIdx, i - 1)

\* workerCode, not isForward:
\* for (let i = hideAfterIndex + 1; i < chat.length; i++), chat the slice
RECURSIVE BackwardChanges(_, _, _)
BackwardChanges(slice, startIdx, i) ==
    IF i >= Len(slice) THEN <<>>
    ELSE (IF ~SliceHidden(slice, i - startIdx) THEN <<>>
          ELSE <<Change(startIdx + i, FALSE)>>)
         \o BackwardChanges(slice, startIdx, i + 1)

\* The changes of the worker of segment i of parallelHide.
SegmentChanges(chat, hideAfterIndex, maxWorkers, i) ==
    LET segmentSize == CeilDiv(Len(chat), maxWorkers)
        start == i * segmentSize
        end == Min(start + segmentSize - 1, Len(chat) - 1)
        slice == Slice(chat, start, end)
    IN  IF 2 * i < maxWorkers
        THEN ForwardChanges(slice, start, hideAfterIndex)
        ELSE BackwardChanges(slice, start, hideAfterIndex + 1)

\* The results of Promise.all, in worker order, from worker i on.
RECURSIVE AllChanges(_, _, _, _)
AllChanges(chat, hideAfterIndex, maxWorkers, i) ==
    IF i >= maxWorkers THEN <<>>
    ELSE SegmentChanges(chat, hideAfterIndex, maxWorkers, i)
         \o AllChanges(chat, hideAfterIndex, maxWorkers, i + 1)

\* changes.forEach(({index, hide}) => this.setHidden(index, hide, false)):
\* setHidden throws a TypeError at an index without message, which ends
\* the loops.
RECURSIVE ApplyChanges(_, _, _)
ApplyChanges(chat, changes, u) ==
    IF u > Len(changes) THEN [chat |-> chat, threw |-> FALSE]
    ELSE IF changes[u].index < 0 \/ changes[u].index >= Len(chat)
    THEN [chat |-> chat, threw |-> TRUE]
    ELSE ApplyChanges(SetHidden(chat, changes[u].index, changes[u].hide),
                      changes, u + 1)

\* HideHelperCore.parallelHide(hideAfterIndex) with this.maxWorkers workers
ParallelHide(hideAfterIndex, maxWorkers) ==
    LET changes == AllChanges(messages, hideAfterIndex, maxWorkers, 0)
        applied == ApplyChanges(messages, changes, 1)
    IN  /\ messages' = applied.chat
        /\ request' = [NoRequest EXCEPT !.op = "parallelHide",
                                        !.hideAfterIndex = hideAfterIndex,
                                        !.workers = maxWorkers,
                                        !.changes = changes,
                                        !.threw = applied.threw]
        /\ UNCHANGED <<lastRead, storeVars, worker, index, indexPromise,
                       pendingOperations, operationId, toWorker, fromWorker,
                       calls, builds, twin>>

InitCore ==
    /\ messages \in CoreChats
    /\ storeImpl = "manager"
    /\ storeIndex = NullIndex
    /\ storeOps = <<>>
    /\ worker = FALSE
    /\ MgrFresh

\* hideAfterIndex is the last position to hide, -1 when there is none.
NextCore ==
    \/ \E hideAfterIndex \in (-1)..(Len(messages) - 1) :
          JumpScanHide(hideAfterIndex)
    \/ \E hideAfterIndex \in (-1)..(Len(messages) - 1),
          maxWorkers \in 1..MaxWorkers :
          ParallelHide(hideAfterIndex, maxWorkers)

SpecCore == InitCore /\ [][NextCore]_vars

(***************************************************************************)
(* Properties of the Index Store and the Range Processor.                  *)
(***************************************************************************)
\* The identifiers whose state is the one a range operation moves away from.
InSource(idx, messageId, unhide) ==
    IF unhide THEN messageId \in idx.hidden ELSE messageId \in idx.visible

\* The identifiers whose state already is the one requested.
InTarget(idx, messageId, unhide) ==
    IF unhide THEN messageId \in idx.visible ELSE messageId \in idx.hidden

\* The identifier the design gives a message: its id, or its position when it
\* carries none (message.id ?? position).
DesignId(message, position) ==
    IF message.id = NoId THEN position ELSE message.id

\* No two messages of the sequence share an identifier.
DistinctIds ==
    \A i \in 1..Len(messages), j \in 1..Len(messages) :
        i # j => DesignId(messages[i], i - 1) # DesignId(messages[j], j - 1)

\* C1: every built index has hidden and visible disjoint, and their union is
\* the set of identifiers seen during the build (keys of messagePositions).
\* Stated for message sequences whose identifiers are pairwise distinct.
C1_PartitionAfterBuild ==
    (DistinctIds /\ storeIndex # NullIndex /\ storeOps = <<>>) =>
        /\ storeIndex.hidden \cap storeIndex.visible = {}
        /\ storeIndex.hidden \cup storeIndex.visible
               = DOMAIN storeIndex.messagePositions

\* C2: after a build and any sequence of range operations, every identifier
\* in messagePositions is in exactly one of hidden and visible.  Stated for
\* message sequences whose identifiers are pairwise distinct.
C2_ExactlyOneSet ==
    (DistinctIds /\ storeIndex # NullIndex) =>
        \A messageId \in DOMAIN storeIndex.messagePositions :
            (messageId \in storeIndex.hidden)
                # (messageId \in storeIndex.visible)

\* C3: a range operation that repeats the previous one (same messages, range
\* and polarity, on the index the previous one returned) has an empty updates
\* map and leaves hidden and visible as they were.
C3_ReapplyIsNoop ==
    \A k \in 1..Len(storeOps) :
        storeOps[k].repeats
        => /\ storeOps[k].updates = <<>>
           /\ storeOps[k].after.hidden = storeOps[k].before.hidden
           /\ storeOps[k].after.visible = storeOps[k].before.visible

\* A repeated range operation whose first application changed something.
C3_Witness ==
    \E k \in 1..Len(storeOps) :
        /\ storeOps[k].repeats
        /\ storeOps[k].prevChanged
        /\ storeOps[k].after = storeIndex

\* The positions of [start, end] that hold a message whose identifier was in
\* the source state before the operation.
Selected(op) ==
    {j \in op.start..op.end :
        /\ HasMessage(messages, j)
        /\ InSource(op.before, MessageId(messages[j + 1], j), op.unhide)}

\* C4: the updates map of a range operation holds exactly the identifiers of
\* the messages at positions j of [start, end] whose state before was the
\* source state, each mapped to {position: j, isHidden: !unhide}, and no
\* identifier whose state already matched the target.  Stated for message
\* sequences whose identifiers are pairwise distinct.
C4_UpdatesExact ==
    \A k \in 1..Len(storeOps) :
        LET op == storeOps[k]
        IN  DistinctIds =>
            /\ \A j \in Selected(op) :
                  \E u \in 1..Len(op.updates) :
                      op.updates[u] = UpdateEntry(MessageId(messages[j + 1], j),
                                                  j, ~op.unhide)
            /\ \A u \in 1..Len(op.updates) :
                  /\ op.updates[u].position \in Selected(op)
                  /\ op.updates[u].id
                        = MessageId(messages[op.updates[u].position + 1],
                                    op.updates[u].position)
                  /\ op.updates[u].isHidden = ~op.unhide
                  /\ ~InTarget(op.before, op.updates[u].id, op.unhide)

(***************************************************************************)
(* Spec: the MessageIndexManager, its worker and its callers.              *)
(***************************************************************************)
\* One ensureIndex, processRange or sendToWorker call: pc is "await" until
\* the awaited indexPromise settles, "sent" while its operation is with the
\* worker, "done" once the call's own promise is settled.  messages is the
\* sequence the caller passed, snap is this.index when the call settled,
\* computed the updates the backend computed for it, degraded whether the
\* Manager had no worker when the call was made.
NewCall(kind, start, end, unhide) ==
    [kind |-> kind, start |-> start, end |-> end, unhide |-> unhide,
     messages |-> messages,
     pc |-> "await", state |-> "pending", value |-> Undefined,
     snap |-> NullIndex, dispatched |-> FALSE, computed |-> <<>>,
     degraded |-> ~worker]

\* A Manager that takes the worker for available whatever became of it.
WorkerAvailable_Always == TRUE

\* sendToWorker: if (!this.worker) ... else ...
WorkerAvailable == worker

\* A memo that is consulted only once the build has resolved.
NeedsBuild_UntilResolved(promise) == promise.state # "resolved"

\* if (!this.indexPromise)
NeedsBuild(promise) == promise.state = "null"

\* A call that goes on without awaiting the promise.
AwaitSettled_NoAwait(promise) == TRUE

\* await promise: the continuation runs once the promise is settled.
AwaitSettled(promise) == promise.state \in {"resolved", "rejected"}

\* What processRangeSync returns: {result: {updates}, index}
SyncRangeValue(res) ==
    [result |-> [updates |-> res.updates], index |-> res.index]

\* What buildIndexSync returns: {index}
SyncBuildValue(idx) == [index |-> idx]

\* sendToWorker with a worker: next operation id, pending entry and
\* postMessage; the timer it arms is the action Timeout of that id.  cont
\* names the promise the entry settles: 0 is indexPromise, c > 0 the promise
\* of call c.
Dispatch(action, data, cont) ==
    /\ operationId' = operationId + 1
    /\ pendingOperations' = MapSet(pendingOperations, operationId + 1, cont)
    /\ toWorker' = Append(toWorker, [operationId |-> operationId + 1,
                                     action |-> action, data |-> data])

\* The synchronous part of ensureIndex(messages).
EnsureIndex ==
    IF NeedsBuild(indexPromise)
    THEN /\ builds' = builds + 1
         /\ IF WorkerAvailable
            THEN /\ Dispatch("buildIndex", [messages |-> messages], 0)
                 /\ indexPromise' = [state |-> "pending", value |-> Undefined]
                 /\ index' = index
            ELSE /\ index' = BuildIndexSync(messages)
                 /\ indexPromise' =
                        [state |-> "resolved",
                         value |-> SyncBuildValue(BuildIndexSync(messages))]
                 /\ UNCHANGED <<pendingOperations, operationId, toWorker>>
    ELSE UNCHANGED <<index, indexPromise, pendingOperations, operationId,
                     toWorker, builds>>

AllDone == \A c \in DOMAIN calls : calls[c].pc = "done"

\* ensureIndex on the Manager without worker.
TwinEnsure(t) ==
    IF NeedsBuild(t.indexPromise)
    THEN [t EXCEPT !.index = BuildIndexSync(messages),
                   !.indexPromise =
                       [state |-> "resolved",
                        value |-> SyncBuildValue(BuildIndexSync(messages))]]
    ELSE t

\* The same call, awaited, on the Manager without worker.
TwinCall(t, kind, start, end, unhide) ==
    LET b == TwinEnsure(t)
        res == ProcessRangeSync(b.index, messages, start, end, unhide)
    IN  IF kind = "ensureIndex"
        THEN [b EXCEPT !.last = b.indexPromise.value]
        ELSE [b EXCEPT !.index = res.index, !.last = SyncRangeValue(res)]

\* A caller calls ensureIndex(messages).
CallEnsureIndex ==
    /\ Len(calls) < MaxCalls
    /\ EnsureIndex
    /\ calls' = Append(calls, NewCall("ensureIndex", 0, 0, FALSE))
    /\ UNCHANGED <<messages, lastRead, storeVars, request, worker, fromWorker>>

\* A caller calls processRange(messages, start, end, unhide): up to the await.
CallProcessRange(start, end, unhide) ==
    /\ Len(calls) < MaxCalls
    /\ EnsureIndex
    /\ calls' = Append(calls, NewCall("processRange", start, end, unhide))
    /\ UNCHANGED <<messages, lastRead, storeVars, request, worker, fromWorker>>

\* A caller calls sendToWorker(action, data) with an action that is neither
\* buildIndex nor processRange: dispatched to the worker, or, without one,
\* processSynchronously throws and the promise of the async function rejects.
CallSendToWorker ==
    /\ Len(calls) < MaxCalls
    /\ IF WorkerAvailable
       THEN /\ Dispatch("other", [messages |-> messages], Len(calls) + 1)
            /\ calls' = Append(calls,
                    [NewCall("sendToWorker", 0, 0, FALSE) EXCEPT
                        !.pc = "sent", !.dispatched = TRUE])
       ELSE /\ calls' = Append(calls,
                    [NewCall("sendToWorker", 0, 0, FALSE) EXCEPT
                        !.pc = "done", !.state = "rejected",
                        !.value = ErrorOf("unsupported action"),
                        !.snap = index])
            /\ UNCHANGED <<pendingOperations, operationId, toWorker>>
    /\ UNCHANGED <<messages, lastRead, storeVars, request, worker, index, indexPromise,
                   fromWorker, builds, twin>>

\* CHAT_CHANGED: the host has loaded another chat.  The handler does nothing
\* to the Manager; the calls it goes on to make are the call actions.
ChatChanged ==
    /\ messages' \in HostChats \ {messages}
    /\ UNCHANGED <<lastRead, storeVars, mgrVars>>

\* isMessageHidden(messageId): this.index?.hidden.has(messageId) ?? false
IsMessageHidden(idx, messageId) ==
    IF idx = NullIndex THEN FALSE ELSE messageId \in idx.hidden

\* isMessageVisible(messageId): this.index?.visible.has(messageId) ?? true
IsMessageVisible(idx, messageId) ==
    IF idx = NullIndex THEN TRUE ELSE messageId \in idx.visible

\* getMessagePosition(messageId): this.index?.messagePositions.get(messageId)
GetMessagePosition(idx, messageId) ==
    IF idx = NullIndex THEN NoPos ELSE MapGet(idx.messagePositions, messageId)

\* MessageIndexManager.getIndexStats (without lastUpdate)
GetIndexStats(idx) ==
    IF idx = NullIndex THEN [null |-> TRUE]
    ELSE [totalMessages |-> Cardinality(DOMAIN idx.messagePositions),
          hiddenCount |-> Cardinality(idx.hidden),
          visibleCount |-> Cardinality(idx.visible),
          systemCount |-> Cardinality(idx.systemMessages)]

\* The identifiers a reader asks about: those of the positions of a chat and
\* one that no chat holds.
ReadIds == 0..MaxChat

\* What is recorded of a read: the call, what it returned, whether a snapshot
\* existed and whether it held the identifier.
ReadOf(op, messageId) ==
    [op |-> op, id |-> messageId,
     flag |-> IF op = "isMessageHidden" THEN IsMessageHidden(index, messageId)
              ELSE IF op = "isMessageVisible"
              THEN IsMessageVisible(index, messageId)
              ELSE FALSE,
     position |-> IF op = "getMessagePosition"
                  THEN GetMessagePosition(index, messageId) ELSE NoPos,
     stats |-> IF op = "getIndexStats" THEN GetIndexStats(index)
               ELSE [null |-> TRUE],
     hadIndex |-> index # NullIndex,
     known |-> /\ index # NullIndex
               /\ messageId \in DOMAIN index.messagePositions]

\* A read that makes sure of an index first.
ReadFrame_Builds == EnsureIndex

\* The reads assign no field of the Manager and call none of its methods.
ReadFrame ==
    UNCHANGED <<index, indexPromise, pendingOperations, operationId, toWorker,
                builds>>

\* A caller reads through the public API.
Read(op, messageId) ==
    /\ lastRead' = ReadOf(op, messageId)
    /\ ReadFrame
    /\ UNCHANGED <<messages, storeVars, request, worker, fromWorker, calls, twin>>

IsMessageHiddenCall == \E messageId \in ReadIds : Read("isMessageHidden", messageId)

IsMessageVisibleCall == \E messageId \in ReadIds : Read("isMessageVisible", messageId)

GetMessagePositionCall == \E messageId \in ReadIds : Read("getMessagePosition", messageId)

GetIndexStatsCall == Read("getIndexStats", 0)

\* Continuations of one promise run in the order they were registered.
NextToResume(c) ==
    /\ c \in DOMAIN calls
    /\ calls[c].pc = "await"
    /\ \A d \in 1..(c - 1) : calls[d].pc # "await"

\* The caller of ensureIndex gets the outcome of indexPromise.
ResumeEnsureIndex(c) ==
    /\ NextToResume(c)
    /\ calls[c].kind = "ensureIndex"
    /\ AwaitSettled(indexPromise)
    /\ calls' = [calls EXCEPT ![c] =
                    [@ EXCEPT !.pc = "done", !.state = indexPromise.state,
                              !.value = indexPromise.value, !.snap = index]]
    /\ UNCHANGED <<messages, lastRead, storeVars, request, worker, index, indexPromise,
                   pendingOperations, operationId, toWorker, fromWorker,
                   builds, twin>>

\* processRange after `await this.ensureIndex(messages)`: a rejected build
\* rejects the call; otherwise sendToWorker('processRange', ...), to the
\* worker or, without one, through processRangeSync.
ResumeProcessRange(c) ==
    /\ NextToResume(c)
    /\ calls[c].kind = "processRange"
    /\ AwaitSettled(indexPromise)
    /\ IF indexPromise.state = "rejected"
       THEN /\ calls' = [calls EXCEPT ![c] =
                            [@ EXCEPT !.pc = "done", !.state = "rejected",
                                      !.value = indexPromise.value,
                                      !.snap = index]]
            /\ UNCHANGED <<index, pendingOperations, operationId, toWorker>>
       ELSE IF WorkerAvailable
       THEN /\ Dispatch("processRange",
                        [messages |-> calls[c].messages,
                         start |-> calls[c].start,
                         end |-> calls[c].end, unhide |-> calls[c].unhide], c)
            /\ calls' = [calls EXCEPT ![c] =
                            [@ EXCEPT !.pc = "sent", !.dispatched = TRUE]]
            /\ index' = index
       ELSE LET res == ProcessRangeSync(index, calls[c].messages,
                                        calls[c].start,
                                        calls[c].end, calls[c].unhide)
            IN  /\ index' = res.index
                /\ calls' = [calls EXCEPT ![c] =
                                [@ EXCEPT !.pc = "done", !.state = "resolved",
                                          !.value = SyncRangeValue(res),
                                          !.snap = res.index,
                                          !.dispatched = TRUE,
                                          !.computed = res.updates]]
                /\ UNCHANGED <<pendingOperations, operationId, toWorker>>
    /\ UNCHANGED <<messages, lastRead, storeVars, request, worker, indexPromise, fromWorker,
                   builds, twin>>

\* A worker that answers every action it does not know as a build.
WorkerReply_NoDefault(req) ==
    IF req.action = "processRange"
    THEN LET idx == IF "index" \in DOMAIN req.data
                    THEN req.data.index
                    ELSE BuildMessageIndex(req.data.messages)
         IN  [operationId |-> req.operationId, action |-> "rangeProcessed",
              data |-> ProcessMessageRange(req.data.messages, idx,
                                           req.data.start, req.data.end,
                                           req.data.unhide)]
    ELSE [operationId |-> req.operationId, action |-> "indexBuilt",
          data |-> [index |-> BuildMessageIndex(req.data.messages)]]

\* worker.js self.onmessage: the message it posts back.
WorkerReply(req) ==
    IF req.action = "buildIndex"
    THEN [operationId |-> req.operationId, action |-> "indexBuilt",
          data |-> [index |-> BuildMessageIndex(req.data.messages)]]
    ELSE IF req.action = "processRange"
    THEN LET idx == IF "index" \in DOMAIN req.data
                    THEN req.data.index
                    ELSE BuildMessageIndex(req.data.messages)
         IN  [operationId |-> req.operationId, action |-> "rangeProcessed",
              data |-> ProcessMessageRange(req.data.messages, idx,
                                           req.data.start, req.data.end,
                                           req.data.unhide)]
    ELSE [operationId |-> req.operationId, error |-> "unknown action"]

\* The worker handles the oldest posted message.
WorkerOnMessage ==
    /\ toWorker # <<>>
    /\ toWorker' = Tail(toWorker)
    /\ fromWorker' = Append(fromWorker, WorkerReply(Head(toWorker)))
    /\ UNCHANGED <<messages, lastRead, storeVars, request, worker, index, indexPromise,
                   pendingOperations, operationId, calls, builds, twin>>

\* A message of the worker that names no operation is waiting.
ErrorReported ==
    \E i \in DOMAIN fromWorker : "operationId" \notin DOMAIN fromWorker[i]

\* worker.js self.onerror: an uncaught error in the worker posts a message
\* that carries an error and no operationId.
WorkerOnError ==
    /\ ~ErrorReported
    /\ fromWorker' = Append(fromWorker, [error |-> "worker error"])
    /\ UNCHANGED <<messages, lastRead, storeVars, request, worker, index, indexPromise,
                   pendingOperations, operationId, toWorker, calls, builds,
                   twin>>

\* A table whose delete removes nothing.
MapDelete_Keeps(map, key) == map

\* pendingOperations.delete(operationId)
MapDelete(map, key) == [k \in (DOMAIN map) \ {key} |-> map[k]]

\* Settling the promise cont of a pending entry: indexPromise ...
PromiseSettled(promise, cont, state, value) ==
    IF cont = 0 THEN [state |-> state, value |-> value] ELSE promise

\* ... or the promise of call cont.
CallsSettled(cs, cont, state, value, snap, computed) ==
    IF cont = 0 THEN cs
    ELSE [cs EXCEPT ![cont] =
             [@ EXCEPT !.pc = "done", !.state = state, !.value = value,
                       !.snap = snap, !.computed = computed]]

\* this.pendingOperations.get(operationId) finds an entry; a message without
\* operationId looks up undefined and finds none.
HasPending(msg) ==
    /\ "operationId" \in DOMAIN msg
    /\ msg.operationId \in DOMAIN pendingOperations

\* this.worker.onmessage for the oldest message the worker posted.
ManagerOnMessage ==
    /\ fromWorker # <<>>
    /\ fromWorker' = Tail(fromWorker)
    /\ LET msg == Head(fromWorker)
           id == Field(msg, "operationId")
       IN  IF ~HasPending(msg)
           THEN UNCHANGED <<index, indexPromise, pendingOperations, calls>>
           ELSE LET cont == pendingOperations[id]
                IN  /\ pendingOperations' = MapDelete(pendingOperations, id)
                    /\ IF "error" \in DOMAIN msg
                       THEN /\ index' = index
                            /\ indexPromise' =
                                   PromiseSettled(indexPromise, cont,
                                       "rejected", ErrorOf(msg.error))
                            /\ calls' =
                                   CallsSettled(calls, cont, "rejected",
                                       ErrorOf(msg.error), index, <<>>)
                       ELSE IF msg.action = "indexBuilt"
                       THEN /\ index' = msg.data.index
                            /\ indexPromise' =
                                   PromiseSettled(indexPromise, cont,
                                       "resolved", msg.data.index)
                            /\ calls' =
                                   CallsSettled(calls, cont, "resolved",
                                       msg.data.index, msg.data.index, <<>>)
                       ELSE IF msg.action = "rangeProcessed"
                       THEN /\ index' = msg.data.index
                            /\ indexPromise' =
                                   PromiseSettled(indexPromise, cont,
                                       "resolved", Field(msg.data, "result"))
                            /\ calls' =
                                   CallsSettled(calls, cont, "resolved",
                                       Field(msg.data, "result"),
                                       msg.data.index, msg.data.updates)
                       ELSE /\ index' = index
                            /\ indexPromise' =
                                   PromiseSettled(indexPromise, cont,
                                       "rejected", ErrorOf("unknown reply"))
                            /\ calls' =
                                   CallsSettled(calls, cont, "rejected",
                                       ErrorOf("unknown reply"), index, <<>>)
    /\ UNCHANGED <<messages, lastRead, storeVars, request, worker, operationId, toWorker,
                   builds, twin>>

\* A Manager that arms the timer of its first operation only.
TimerArmed_FirstOnly(id) == id = 1

\* setTimeout(..., 5000) in sendToWorker: every dispatched operation has a
\* timer.
TimerArmed(id) == id \in 1..operationId

\* A timer whose expiry empties the pending table.
Timeout_ClearsTable(id) ==
    /\ id \in 1..operationId
    /\ IF id \in DOMAIN pendingOperations
       THEN /\ pendingOperations' = EmptyMap
            /\ indexPromise' =
                   PromiseSettled(indexPromise, pendingOperations[id],
                                  "rejected", ErrorOf("timeout"))
            /\ calls' = CallsSettled(calls, pendingOperations[id], "rejected",
                                     ErrorOf("timeout"), index, <<>>)
       ELSE UNCHANGED <<pendingOperations, indexPromise, calls>>
    /\ UNCHANGED <<messages, lastRead, storeVars, request, worker, index, operationId,
                   toWorker, fromWorker, builds, twin>>

\* The setTimeout callback of a dispatched operation id fires.  A pending
\* entry is deleted and its promise rejected; for an operation that is no
\* longer pending the callback changes nothing.
Timeout(id) ==
    /\ TimerArmed(id)
    /\ IF id \in DOMAIN pendingOperations
       THEN /\ pendingOperations' = MapDelete(pendingOperations, id)
            /\ indexPromise' =
                   PromiseSettled(indexPromise, pendingOperations[id],
                                  "rejected", ErrorOf("timeout"))
            /\ calls' = CallsSettled(calls, pendingOperations[id], "rejected",
                                     ErrorOf("timeout"), index, <<>>)
       ELSE UNCHANGED <<pendingOperations, indexPromise, calls>>
    /\ UNCHANGED <<messages, lastRead, storeVars, request, worker, index, operationId, toWorker,
                   fromWorker, builds, twin>>

\* A handler that finds no operation to fail.
PendingConts_None == {}

\* The promises the pending table holds.
PendingConts == {pendingOperations[id] : id \in DOMAIN pendingOperations}

\* A handler that fails the pending operations and keeps their entries.
HandleWorkerError_KeepsPending ==
    /\ worker
    /\ worker' = FALSE
    /\ indexPromise' = IF 0 \in PendingConts
                       THEN [state |-> "rejected",
                             value |-> ErrorOf("worker error")]
                       ELSE indexPromise
    /\ calls' = [c \in DOMAIN calls |->
                    IF c \in PendingConts
                    THEN [calls[c] EXCEPT !.pc = "done", !.state = "rejected",
                                          !.value = ErrorOf("worker error"),
                                          !.snap = index]
                    ELSE calls[c]]
    /\ UNCHANGED <<messages, lastRead, storeVars, request, index, operationId,
                   pendingOperations, toWorker, fromWorker, builds, twin>>

\* worker.onerror -> handleWorkerError(error)
HandleWorkerError ==
    /\ worker
    /\ worker' = FALSE
    /\ indexPromise' = IF 0 \in PendingConts
                       THEN [state |-> "rejected",
                             value |-> ErrorOf("worker error")]
                       ELSE indexPromise
    /\ calls' = [c \in DOMAIN calls |->
                    IF c \in PendingConts
                    THEN [calls[c] EXCEPT !.pc = "done", !.state = "rejected",
                                          !.value = ErrorOf("worker error"),
                                          !.snap = index]
                    ELSE calls[c]]
    /\ pendingOperations' = EmptyMap
    /\ UNCHANGED <<messages, lastRead, storeVars, request, index, operationId, toWorker,
                   fromWorker, builds, twin>>

\* The steps of the calls that are under way and of a worker that answers.
Responsive ==
    \/ \E c \in 1..MaxCalls : ResumeEnsureIndex(c)
    \/ \E c \in 1..MaxCalls : ResumeProcessRange(c)
    \/ WorkerOnMessage
    \/ ManagerOnMessage

\* The steps of the worker, of the Manager's handlers and of the calls that
\* are under way.
Backend ==
    \/ Responsive
    \/ WorkerOnError
    \/ \E id \in 1..(MaxCalls + 1) : Timeout(id)
    \/ HandleWorkerError

\* initWorker(): the Worker is created, or creation throws and worker is null.
Init ==
    /\ messages \in HostChats
    /\ storeImpl = "manager"
    /\ storeIndex = NullIndex
    /\ storeOps = <<>>
    /\ worker \in BOOLEAN
    /\ MgrFresh

\* Callers that do not wait for each other; the ranges are those the host's
\* applyHideSettings passes, 0 .. end.
Next ==
    \/ CallEnsureIndex /\ UNCHANGED twin
    \/ \E end \in 0..(MaxChat - 1), unhide \in BOOLEAN :
          CallProcessRange(0, end, unhide) /\ UNCHANGED twin
    \/ Backend

Spec == Init /\ [][Next]_vars

(***************************************************************************)
(* SpecAwaited: a caller that awaits each call before making the next.     *)
(***************************************************************************)
InitAwaited ==
    /\ messages \in MessageSeqs
    /\ storeImpl = "manager"
    /\ storeIndex = NullIndex
    /\ storeOps = <<>>
    /\ worker \in BOOLEAN
    /\ MgrFresh

\* Range bounds within the longest chat.
CallPositions == 0..(MaxLen - 1)

\* Each call is also made on the Manager without worker.
NextAwaited ==
    \/ /\ AllDone
       /\ CallEnsureIndex
       /\ twin' = TwinCall(twin, "ensureIndex", 0, 0, FALSE)
    \/ \E start \in CallPositions, end \in CallPositions, unhide \in BOOLEAN :
          /\ AllDone
          /\ start <= end
          /\ CallProcessRange(start, end, unhide)
          /\ twin' = TwinCall(twin, "processRange", start, end, unhide)
    \/ Backend

SpecAwaited == InitAwaited /\ [][NextAwaited]_vars

(***************************************************************************)
(* SpecTimer: a caller that awaits its calls, a worker that answers late  *)
(* or never, and an event loop that runs every timer that has expired and  *)
(* every continuation whose promise is settled.                            *)
(***************************************************************************)
NextTimer ==
    \/ AllDone /\ CallEnsureIndex /\ UNCHANGED twin
    \/ \E end \in 0..(MaxChat - 1), unhide \in BOOLEAN :
          AllDone /\ CallProcessRange(0, end, unhide) /\ UNCHANGED twin
    \/ Responsive
    \/ \E id \in 1..(MaxCalls + 1) : Timeout(id)

\* The timers and the continuations run; nothing makes the worker answer.
EventLoop ==
    /\ \A id \in 1..(MaxCalls + 1) : WF_vars(Timeout(id))
    /\ \A c \in 1..MaxCalls :
          WF_vars(ResumeEnsureIndex(c)) /\ WF_vars(ResumeProcessRange(c))

SpecTimer == Init /\ [][NextTimer]_vars /\ EventLoop

(***************************************************************************)
(* SpecSend: a caller that awaits its calls and also calls sendToWorker    *)
(* with an action of its own.                                              *)
(***************************************************************************)
NextSend ==
    \/ AllDone /\ CallEnsureIndex /\ UNCHANGED twin
    \/ \E end \in 0..(MaxChat - 1), unhide \in BOOLEAN :
          AllDone /\ CallProcessRange(0, end, unhide) /\ UNCHANGED twin
    \/ AllDone /\ CallSendToWorker
    \/ Backend

SpecSend == Init /\ [][NextSend]_vars

(***************************************************************************)
(* SpecReads: a caller that awaits its calls and reads through the public  *)
(* API at any moment; the worker, if there is one, answers.                *)
(***************************************************************************)
NextReads ==
    \/ AllDone /\ CallEnsureIndex /\ UNCHANGED twin
    \/ \E end \in 0..(MaxChat - 1), unhide \in BOOLEAN :
          AllDone /\ CallProcessRange(0, end, unhide) /\ UNCHANGED twin
    \/ IsMessageHiddenCall
    \/ IsMessageVisibleCall
    \/ GetMessagePositionCall
    \/ GetIndexStatsCall
    \/ Responsive

SpecReads == Init /\ [][NextReads]_vars

(***************************************************************************)
(* SpecHost: a host that awaits its calls and changes chat between them;   *)
(* the worker, if there is one, answers.                                   *)
(***************************************************************************)
NextHost ==
    \/ AllDone /\ CallEnsureIndex /\ UNCHANGED twin
    \/ \E end \in 0..(MaxChat - 1), unhide \in BOOLEAN :
          AllDone /\ CallProcessRange(0, end, unhide) /\ UNCHANGED twin
    \/ AllDone /\ ChatChanged
    \/ Responsive

SpecHost == Init /\ [][NextHost]_vars

(***************************************************************************)
(* The host's hideChatMessageRange (SpecRange, SpecFlags).                 *)
(***************************************************************************)
\* defaultSettings.batchSize
settingsBatchSize == 50

\* The chats of the host of SpecRange.
RangeChats == {m \in SeqsUpTo(MaxLen) : \A j \in DOMAIN m : m[j].id = NoId}

\* The start and end a caller may pass: below 0, within and beyond the
\* longest chat.
RawBounds == (-1)..MaxLen

\* hideChatMessageRange: clamp start and end into the chat of length n, then
\* order them.
NormalizeRange(n, start, end) ==
    LET s == Max(0, Min(start, n - 1))
        e == Max(0, Min(end, n - 1))
    IN  [start |-> Min(s, e), end |-> Max(s, e)]

HideRequest(op, start, end, unhide) ==
    [NoRequest EXCEPT !.op = op, !.start = start, !.end = end,
                      !.unhide = unhide]

\* The host awaits each hideChatMessageRange before it makes another request.
HostIdle == AllDone /\ request.op # "indexing"

\* hideChatMessageRange(start, end, unhide) with settings.useIndexing: up to
\* the await inside processRange.  With an empty chat it returns at once.
HideIndexed(start, end, unhide) ==
    /\ HostIdle
    /\ IF Len(messages) = 0
       THEN /\ request' = HideRequest("indexed", start, end, unhide)
            /\ UNCHANGED <<index, indexPromise, pendingOperations,
                           operationId, toWorker, builds, calls>>
       ELSE LET range == NormalizeRange(Len(messages), start, end)
            IN  /\ Len(calls) < MaxCalls
                /\ EnsureIndex
                /\ calls' = Append(calls,
                       NewCall("processRange", range.start, range.end, unhide))
                /\ request' = HideRequest("indexing", start, end, unhide)
    /\ UNCHANGED <<messages, lastRead, storeVars, worker, fromWorker, twin>>

\* The loop of updateDOMWithResult, for a chat whose messages are rendered:
\* chat[update.position].is_system = update.isHidden, in Map order.
RECURSIVE ApplyUpdates(_, _, _)
ApplyUpdates(chat, updates, u) ==
    IF u > Len(updates) THEN chat
    ELSE ApplyUpdates([chat EXCEPT ![updates[u].position + 1].is_system =
                                       updates[u].isHidden],
                      updates, u + 1)

\* hideChatMessageRange after `await processRange(...)`: a rejected call
\* rejects the request; updateDOMWithResult(result) reads result.updates.size
\* and throws a TypeError when result has no updates.
HideContinues ==
    /\ request.op = "indexing"
    /\ AllDone
    /\ LET call == calls[Len(calls)]
       IN  IF call.state = "rejected" \/ "updates" \notin DOMAIN call.value
           THEN /\ request' = [request EXCEPT !.op = "indexed", !.threw = TRUE]
                /\ messages' = messages
           ELSE /\ request' = [request EXCEPT !.op = "indexed"]
                /\ messages' = ApplyUpdates(messages, call.value.updates, 1)
    /\ UNCHANGED <<lastRead, storeVars, worker, index, indexPromise,
                   pendingOperations, operationId, toWorker, fromWorker,
                   calls, builds, twin>>

\* for (let j = i; j <= chunkEnd; j++) of processBatchedMessages
RECURSIVE BatchedChunk(_, _, _, _)
BatchedChunk(chat, j, chunkEnd, unhide) ==
    IF j > chunkEnd THEN chat
    ELSE BatchedChunk(IF chat[j + 1].is_system # unhide
                      THEN [chat EXCEPT ![j + 1].is_system = unhide]
                      ELSE chat,
                      j + 1, chunkEnd, unhide)

\* processBatchedMessages(chat, start, end, unhide): the flags it leaves.
RECURSIVE ProcessBatchedMessages(_, _, _, _)
ProcessBatchedMessages(chat, i, end, unhide) ==
    IF i > end THEN chat
    ELSE ProcessBatchedMessages(
             BatchedChunk(chat, i, Min(i + settingsBatchSize - 1, end), unhide),
             i + settingsBatchSize, end, unhide)

\* hideChatMessageRange(start, end, unhide) with settings.useIndexing off.
HideBatched(start, end, unhide) ==
    /\ HostIdle
    /\ messages' =
          IF Len(messages) = 0 THEN messages
          ELSE LET range == NormalizeRange(Len(messages), start, end)
               IN  ProcessBatchedMessages(messages, range.start, range.end,
                                          unhide)
    /\ request' = HideRequest("batched", start, end, unhide)
    /\ UNCHANGED <<lastRead, storeVars, worker, index, indexPromise,
                   pendingOperations, operationId, toWorker, fromWorker,
                   calls, builds, twin>>

\* The steps of the host's processRange calls that are under way and of a
\* worker that answers.
RangeBackend ==
    \/ \E c \in 1..MaxCalls : ResumeProcessRange(c)
    \/ WorkerOnMessage
    \/ ManagerOnMessage

\* SpecRange: a host that makes indexed hide requests with any start and end.
InitRange ==
    /\ messages \in RangeChats
    /\ storeImpl = "manager"
    /\ storeIndex = NullIndex
    /\ storeOps = <<>>
    /\ worker \in BOOLEAN
    /\ MgrFresh

NextRange ==
    \/ \E start \in RawBounds, end \in RawBounds, unhide \in BOOLEAN :
          /\ Len(calls) < MaxRequests
          /\ HideIndexed(start, end, unhide)
    \/ HideContinues
    \/ RangeBackend

SpecRange == InitRange /\ [][NextRange]_vars

\* SpecFlags: a host that switches between the indexed and the batched path.
NextFlags ==
    \/ \E start \in RawBounds, end \in RawBounds, unhide \in BOOLEAN :
          HideIndexed(start, end, unhide)
    \/ \E start \in RawBounds, end \in RawBounds, unhide \in BOOLEAN :
          HideBatched(start, end, unhide)
    \/ HideContinues
    \/ RangeBackend

SpecFlags == Init /\ [][NextFlags]_vars

(***************************************************************************)
(* Properties of the Manager.                                              *)
(***************************************************************************)
\* The index as the build left it: the value indexPromise resolved with is
\* the index itself (worker) or {index} (buildIndexSync).
PostBuild ==
    IF "index" \in DOMAIN indexPromise.value THEN indexPromise.value.index
    ELSE indexPromise.value

\* The updates a resolved value carries, at the top level or under result.
Reported(value) ==
    IF "updates" \in DOMAIN value THEN value.updates
    ELSE IF "result" \in DOMAIN value THEN value.result.updates
    ELSE <<>>

\* Call k is a processRange call that resolved.
ResolvedRange(k) ==
    /\ calls[k].kind = "processRange"
    /\ calls[k].pc = "done"
    /\ calls[k].state = "resolved"

\* Only ensureIndex calls precede call k, and the build resolved.
FirstAfterBuild(k) ==
    /\ \A d \in 1..(k - 1) : calls[d].kind = "ensureIndex"
    /\ indexPromise.state = "resolved"

\* Every message position of [start, end] of call k holds a message whose
\* identifier the build left visible and not hidden.
RangeVisibleAfterBuild(k) ==
    \A j \in calls[k].start..calls[k].end :
        /\ HasMessage(messages, j)
        /\ MessageId(messages[j + 1], j) \in PostBuild.visible
        /\ MessageId(messages[j + 1], j) \notin PostBuild.hidden

\* C5: with awaited calls, a hide of [s, e] followed by an unhide of [s, e]
\* reports in the second call an update with isHidden = false for exactly the
\* identifiers the first call hid, and brings hidden and visible back to
\* their values after the build, on either strategy.  Stated for the round
\* trip proper: the range holds only messages the build left visible.
C5_HideUnhideRoundTrip ==
    \A k \in 1..(Len(calls) - 1) :
        (/\ ResolvedRange(k) /\ ResolvedRange(k + 1)
         /\ FirstAfterBuild(k)
         /\ calls[k + 1].start = calls[k].start
         /\ calls[k + 1].end = calls[k].end
         /\ ~calls[k].unhide /\ calls[k + 1].unhide
         /\ RangeVisibleAfterBuild(k))
        => LET second == Reported(calls[k + 1].value)
           IN  /\ UpdateKeys(second)
                      = calls[k].snap.hidden \ PostBuild.hidden
               /\ \A u \in DOMAIN second : ~second[u].isHidden
               /\ calls[k + 1].snap.hidden = PostBuild.hidden
               /\ calls[k + 1].snap.visible = PostBuild.visible

\* C6: n messages, none of them system; after the build and one awaited
\* processRange(messages, s, e, false) with 0 <= s <= e <= n-1, getIndexStats
\* reports totalMessages = n, hiddenCount = e-s+1, visibleCount = n-(e-s+1).
\* Stated for message sequences whose identifiers are pairwise distinct.
C6_StatsAfterHide ==
    \A k \in 1..Len(calls) :
        (/\ DistinctIds
         /\ k = Len(calls)
         /\ ResolvedRange(k)
         /\ FirstAfterBuild(k)
         /\ ~calls[k].unhide
         /\ calls[k].end <= Len(messages) - 1
         /\ \A j \in 1..Len(messages) : ~messages[j].is_system)
        => LET stats == GetIndexStats(index)
               width == calls[k].end - calls[k].start + 1
           IN  /\ index # NullIndex
               /\ stats.totalMessages = Len(messages)
               /\ stats.hiddenCount = width
               /\ stats.visibleCount = Len(messages) - width

\* C7: given the same awaited calls, a Manager with a responsive worker
\* resolves each call with the value a Manager without worker resolves it
\* with, and holds the same snapshot after it.
C7_StrategyEquivalence ==
    (/\ worker
     /\ calls # <<>>
     /\ \A c \in DOMAIN calls :
           calls[c].pc = "done" /\ calls[c].state = "resolved")
    => /\ calls[Len(calls)].value = twin.last
       /\ index = twin.index

\* C8: on both strategies a processRange call resolves with a record whose
\* updates field is the updates map the Range Processor computed for the
\* call, and the index returned with it is the Manager's snapshot.
C8_ResolvesWithUpdates ==
    \A c \in DOMAIN calls :
        ResolvedRange(c)
        => /\ "updates" \in DOMAIN calls[c].value
           /\ calls[c].value.updates = calls[c].computed
           /\ calls[c].snap # NullIndex

\* C9: whatever ensureIndex and processRange calls are made and however they
\* interleave, at most one buildIndex operation is handed to the backend, and
\* every ensureIndex caller gets the outcome of the one memoized promise.
C9_SingleFlightBuild ==
    /\ builds <= 1
    /\ \A c \in DOMAIN calls :
          (calls[c].kind = "ensureIndex" /\ calls[c].pc = "done")
          => /\ calls[c].state = indexPromise.state
             /\ calls[c].value = indexPromise.value

\* Two ensureIndex calls served by one build on the worker.
C9_Witness ==
    /\ builds = 1
    /\ operationId = 1
    /\ \E c \in DOMAIN calls, d \in DOMAIN calls :
          /\ c # d
          /\ calls[c].kind = "ensureIndex" /\ calls[c].pc = "done"
          /\ calls[d].kind = "ensureIndex" /\ calls[d].pc = "done"

\* C10: a processRange action is handed to the backend only once the
\* memoized build has resolved; when the build is rejected the processRange
\* call is rejected and nothing is handed to the backend for it.
C10_BuildBeforeRange ==
    \A c \in DOMAIN calls :
        calls[c].kind = "processRange"
        => /\ calls[c].dispatched => indexPromise.state = "resolved"
           /\ (indexPromise.state = "rejected" /\ calls[c].pc = "done")
              => (calls[c].state = "rejected" /\ ~calls[c].dispatched)

\* A processRange call made while the build was pending, now with the worker.
C10_Witness ==
    \E c \in DOMAIN calls :
        /\ calls[c].kind = "processRange"
        /\ calls[c].pc = "sent"
        /\ c \in PendingConts
        /\ operationId = 2

(***************************************************************************)
(* Failure handling of the Manager.                                        *)
(***************************************************************************)
\* The promise a pending entry settles is rejected with the given error in
\* the next state.
RejectedNext(cont, message) ==
    IF cont = 0
    THEN indexPromise' = [state |-> "rejected", value |-> ErrorOf(message)]
    ELSE /\ calls'[cont].pc = "done"
         /\ calls'[cont].state = "rejected"
         /\ calls'[cont].value = ErrorOf(message)

\* Every promise other than the one of cont is in the next state as it is.
OthersKept(cont) ==
    /\ cont # 0 => indexPromise' = indexPromise
    /\ DOMAIN calls' = DOMAIN calls
    /\ \A d \in DOMAIN calls : d # cont => calls'[d] = calls[d]

\* The timer of the pending operation id expires: its entry leaves the table
\* in a step that takes no message of the worker and keeps the worker.
TimerExpired(id) ==
    /\ id \in DOMAIN pendingOperations
    /\ id \notin DOMAIN pendingOperations'
    /\ fromWorker' = fromWorker
    /\ worker' = worker

\* C11: when the timer of a pending operation expires, the operation is
\* rejected with a timeout error and its entry is removed; every other
\* pending entry, every other promise and the snapshot stay as they are; a
\* timer that expires for an operation no longer pending changes nothing.
C11_TimeoutRejectsOne ==
    [][\A id \in 1..operationId :
          /\ TimerExpired(id)
             => /\ pendingOperations' = MapDelete(pendingOperations, id)
                /\ RejectedNext(pendingOperations[id], "timeout")
                /\ OthersKept(pendingOperations[id])
                /\ index' = index
          /\ (Timeout(id) /\ id \notin DOMAIN pendingOperations)
             => UNCHANGED vars]_vars

\* A processRange operation timed out while another operation stays pending.
C11_Witness ==
    \E c \in DOMAIN calls :
        /\ calls[c].dispatched
        /\ calls[c].pc = "done"
        /\ calls[c].state = "rejected"
        /\ calls[c].value = ErrorOf("timeout")
        /\ pendingOperations # EmptyMap

\* The operation a message of the worker names is not awaiting a reply: the
\* message names none, or one that has no pending entry, or one whose promise
\* is settled already.
NotAwaited(msg) ==
    \/ "operationId" \notin DOMAIN msg
    \/ msg.operationId \notin DOMAIN pendingOperations
    \/ LET cont == pendingOperations[msg.operationId]
       IN  IF cont = 0 THEN indexPromise.state # "pending"
                       ELSE calls[cont].pc = "done"

\* worker.onmessage takes the oldest message of the worker.
MessageTaken == fromWorker # <<>> /\ fromWorker' = Tail(fromWorker)

\* C12: an inbound message whose operationId is not in the pending table (a
\* late reply to an operation that timed out or was failed by a channel
\* error, a message without operationId) is dropped: snapshot, pending table
\* and every promise stay as they are.
C12_UnknownIdDropped ==
    [][(MessageTaken /\ NotAwaited(Head(fromWorker)))
       => UNCHANGED <<index, pendingOperations, indexPromise, calls>>]_vars

\* The reply to a processRange operation that a timeout or a channel error
\* has failed is the next message to take, and a message without operationId
\* waits behind it.
C12_Witness ==
    /\ fromWorker # <<>>
    /\ "operationId" \in DOMAIN Head(fromWorker)
    /\ NotAwaited(Head(fromWorker))
    /\ ErrorReported
    /\ \E c \in DOMAIN calls :
          calls[c].dispatched /\ calls[c].state = "rejected"

\* C13: when the channel reports a fatal error, every operation pending at
\* that moment is rejected with that error and the pending table is empty
\* right after.
C13_FailureEscalation ==
    [][(worker /\ ~worker')
       => /\ pendingOperations' = EmptyMap
          /\ \A id \in DOMAIN pendingOperations :
                RejectedNext(pendingOperations[id], "worker error")]_vars

\* A channel error has failed two operations that were pending together.
C13_Witness ==
    /\ ~worker
    /\ pendingOperations = EmptyMap
    /\ \E c \in DOMAIN calls, d \in DOMAIN calls :
          /\ c # d
          /\ calls[c].dispatched /\ calls[d].dispatched
          /\ calls[c].value = ErrorOf("worker error")
          /\ calls[d].value = ErrorOf("worker error")

\* C14: once the Manager has no worker (creation failed, or a channel error
\* occurred), it never has one again, dispatches nothing, adds no pending
\* entry, and every sendToWorker runs through the local strategy: the build
\* promise is created resolved and a call past its await settles at once.
C14_DegradedIsTerminal ==
    [][~worker
       => /\ ~worker'
          /\ operationId' = operationId
          /\ Len(toWorker') <= Len(toWorker)
          /\ DOMAIN pendingOperations' \subseteq DOMAIN pendingOperations
          /\ indexPromise.state = "null"
             => indexPromise'.state \in {"null", "resolved"}
          /\ \A c \in DOMAIN calls :
                calls[c].pc = "await" => calls'[c].pc \in {"await", "done"}]_vars

\* After a channel error a later processRange call ran on the local strategy.
C14_Witness ==
    /\ ~worker
    /\ operationId >= 1
    /\ \E c \in DOMAIN calls :
          /\ calls[c].kind = "processRange"
          /\ calls[c].degraded
          /\ calls[c].pc = "done"
          /\ calls[c].state = "resolved"

\* The range of call c lies within the sequence passed.
ValidRange(c) ==
    /\ 0 <= calls[c].start
    /\ calls[c].start <= calls[c].end
    /\ calls[c].end <= Len(calls[c].messages) - 1

\* C15: whatever was pending when the channel error occurred (a buildIndex, a
\* processRange, nothing), every processRange call with a valid range that
\* is made once the Manager has no worker resolves.
C15_SelfHealing ==
    \A c \in DOMAIN calls :
        (/\ calls[c].kind = "processRange"
         /\ calls[c].degraded
         /\ ValidRange(c)
         /\ calls[c].pc = "done")
        => calls[c].state = "resolved"

\* A reply resolves the processRange call c in this step.
ReplyResolves(c) ==
    /\ calls[c].kind = "processRange"
    /\ calls[c].pc = "sent"
    /\ MessageTaken
    /\ calls'[c].pc = "done"
    /\ calls'[c].state = "resolved"

\* Another processRange call was dispatched to the worker as well: it is in
\* flight, or its response has been applied.
OtherDispatched(c) ==
    \E d \in DOMAIN calls :
        /\ d # c
        /\ calls[d].kind = "processRange"
        /\ calls[d].dispatched
        /\ ValidRange(d)
        /\ calls[d].pc = "sent" \/ calls[d].state = "resolved"

\* C20: with two processRange calls in flight on the worker together, in
\* every order of their responses, applying a response makes the snapshot the
\* index that response carries (so the response applied last wins) and
\* resolves the promise of the call whose operation id it bears, and no
\* other, with that operation's result.
C20_LastResponseWins ==
    [][\A c \in DOMAIN calls :
          (ReplyResolves(c) /\ ValidRange(c) /\ OtherDispatched(c))
          => LET msg == Head(fromWorker)
             IN  /\ index' = msg.data.index
                 /\ pendingOperations[msg.operationId] = c
                 /\ \A d \in DOMAIN calls : d # c => calls'[d] = calls[d]
                 /\ "updates" \in DOMAIN calls'[c].value
                 /\ calls'[c].value.updates = msg.data.updates]_vars

(***************************************************************************)
(* Unknown actions, reads and chat changes.                                *)
(***************************************************************************)
\* The unsupported-operation errors: the one processSynchronously throws and
\* the one the worker replies with.
Unsupported(value) ==
    \/ value = ErrorOf("unsupported action")
    \/ value = ErrorOf("unknown action")

\* The sendToWorker call c with an unknown action settles in this step, on
\* the local strategy (the call is made and settled at once) or by the reply
\* of the worker.
UnknownActionSettles(c) ==
    /\ c \in DOMAIN calls'
    /\ calls'[c].kind = "sendToWorker"
    /\ calls'[c].pc = "done"
    /\ \/ c \notin DOMAIN calls
       \/ c \in DOMAIN calls /\ calls[c].pc = "sent" /\ MessageTaken

\* C16: a sendToWorker call with an action other than buildIndex and
\* processRange never resolves; on the local strategy, and on the background
\* strategy when the worker's reply settles it, the promise is rejected with
\* an unsupported-operation error, the snapshot stays as it is and no
\* pending entry is left for the call.
C16_UnknownActionRejected ==
    /\ [](\A c \in DOMAIN calls :
             calls[c].kind = "sendToWorker"
             => /\ calls[c].state # "resolved"
                /\ calls[c].pc = "done" => c \notin PendingConts)
    /\ [][\A c \in 1..MaxCalls :
             UnknownActionSettles(c)
             => /\ calls'[c].state = "rejected"
                /\ Unsupported(calls'[c].value)
                /\ index' = index
                /\ c \notin {pendingOperations'[id] :
                                 id \in DOMAIN pendingOperations'}]_vars

\* The worker's error reply has rejected a sendToWorker call made after the
\* index was built.
C16_Witness ==
    /\ worker
    /\ index # NullIndex
    /\ \E c \in DOMAIN calls :
          /\ calls[c].kind = "sendToWorker"
          /\ calls[c].pc = "done"
          /\ calls[c].value = ErrorOf("unknown action")

\* C17: for an identifier unknown to the current snapshot (there is no
\* snapshot, or the snapshot does not hold the identifier) isMessageHidden
\* returns false and isMessageVisible returns true.
C17_ReadDefaults ==
    ~lastRead.known
    => /\ lastRead.op = "isMessageHidden" => lastRead.flag = FALSE
       /\ lastRead.op = "isMessageVisible" => lastRead.flag = TRUE

\* A read has been made in this step.
ReadMade == lastRead' # lastRead

\* C18: isMessageHidden, isMessageVisible, getMessagePosition and
\* getIndexStats leave the snapshot, the memoized build promise, the pending
\* table and the operation counter as they are and dispatch nothing;
\* getIndexStats returns null while there is no snapshot.
C18_ReadsArePure ==
    /\ []((lastRead.op = "getIndexStats" /\ ~lastRead.hadIndex)
          => lastRead.stats = [null |-> TRUE])
    /\ [][ReadMade
          => UNCHANGED <<index, indexPromise, pendingOperations, operationId,
                         toWorker, fromWorker, worker, calls>>]_vars

\* getIndexStats was called while the build was with the worker and no
\* snapshot existed yet.
C18_Witness ==
    /\ lastRead.op = "getIndexStats"
    /\ ~lastRead.hadIndex
    /\ indexPromise.state = "pending"
    /\ pendingOperations # EmptyMap

\* The index is one built from the sequence msgs: its positions and system
\* messages are those of msgs.
BuiltFrom(idx, msgs) ==
    /\ idx # NullIndex
    /\ idx.messagePositions = BuildMessageIndex(msgs).messagePositions
    /\ idx.systemMessages = BuildMessageIndex(msgs).systemMessages

\* C19: after the host has loaded a new chat and an ensureIndex or
\* processRange call with the new sequence has resolved, the snapshot the
\* Manager holds is built from the new sequence.
C19_ChatChangedRebuilds ==
    (/\ calls # <<>>
     /\ calls[Len(calls)].pc = "done"
     /\ calls[Len(calls)].state = "resolved"
     /\ calls[Len(calls)].messages = messages)
    => BuiltFrom(index, messages)

(***************************************************************************)
(* The pending table.                                                      *)
(***************************************************************************)
\* The promise cont is not settled: indexPromise is pending, or the
\* operation of call cont is with the worker.
Unsettled(cont) ==
    IF cont = 0 THEN indexPromise.state = "pending"
    ELSE cont \in DOMAIN calls /\ calls[cont].pc = "sent"

\* C21: in every interleaving of worker responses, timer expiries and
\* channel errors, the promise of a dispatched operation is settled at most
\* once (a settled promise keeps its outcome and never becomes pending
\* again), and an operation has an entry in the pending table exactly while
\* it is unsettled, one entry per operation.
C21_SettledAtMostOnce ==
    /\ [](/\ \A id \in DOMAIN pendingOperations :
                Unsettled(pendingOperations[id])
          /\ \A cont \in 0..Len(calls) : Unsettled(cont) => cont \in PendingConts
          /\ \A id \in DOMAIN pendingOperations :
                \A other \in DOMAIN pendingOperations :
                   pendingOperations[id] = pendingOperations[other]
                   => id = other)
    /\ [][/\ indexPromise.state \in {"resolved", "rejected"}
             => indexPromise' = indexPromise
          /\ \A c \in DOMAIN calls :
                calls[c].pc = "done" => calls'[c] = calls[c]]_vars

\* A response has settled one of two operations that were pending together,
\* and the timer of the other has yet to expire.
C21_Witness ==
    \E c \in DOMAIN calls, d \in DOMAIN calls :
        /\ calls[c].dispatched /\ calls[c].state = "resolved"
        /\ c \notin PendingConts
        /\ calls[d].dispatched /\ calls[d].pc = "sent"
        /\ d \in PendingConts

\* C22: with the timers running, every operation in the pending table is
\* eventually removed from it, a pending indexPromise is eventually settled
\* and every call is eventually settled, whether or not the worker ever
\* answers.
C22_EventuallySettled ==
    /\ \A id \in 1..(MaxCalls + 1) :
          (id \in DOMAIN pendingOperations)
             ~> (id \notin DOMAIN pendingOperations)
    /\ (indexPromise.state = "pending") ~> (indexPromise.state # "pending")
    /\ \A c \in 1..MaxCalls :
          (c \in DOMAIN calls /\ calls[c].pc # "done")
             ~> (c \in DOMAIN calls /\ calls[c].pc = "done")

\* The worker never took the request of an operation, and the timer has
\* rejected the operation and emptied the table.
C22_Witness ==
    \E c \in DOMAIN calls :
        /\ calls[c].dispatched /\ calls[c].pc = "done"
        /\ calls[c].value = ErrorOf("timeout")
        /\ \E i \in DOMAIN toWorker : toWorker[i].action = "processRange"
        /\ fromWorker = <<>>
        /\ pendingOperations = EmptyMap

(***************************************************************************)
(* Frame and chunking of the Range Processor (SpecStore).                  *)
(***************************************************************************)
\* The positions outside [start, end] that hold a message.
Outside(op) ==
    {j \in 0..(Len(messages) - 1) : j < op.start \/ j > op.end}

\* C23: a range operation over [start, end] leaves the hidden/visible
\* membership of the identifier of every message at a position outside
\* [start, end] as it was, and leaves messagePositions as it was.  Stated
\* for message sequences whose identifiers are pairwise distinct.
C23_RangeFrame ==
    \A k \in 1..Len(storeOps) :
        LET op == storeOps[k]
        IN  DistinctIds =>
            /\ op.after.messagePositions = op.before.messagePositions
            /\ \A j \in Outside(op) :
                  LET messageId == MessageId(messages[j + 1], j)
                  IN  /\ (messageId \in op.after.hidden)
                            <=> (messageId \in op.before.hidden)
                      /\ (messageId \in op.after.visible)
                            <=> (messageId \in op.before.visible)

\* The single scan of [start, end], without chunks, from the index the
\* operation started on.
Unchunked(op) ==
    ScanChunk(messages, [updates |-> <<>>, index |-> op.before],
              op.start, op.end, op.unhide)

\* C25: for every batch size >= 1 the chunked scan of a range operation
\* gives the updates (same entries, in scan order) and the index of the
\* single unchunked scan of the same range, and so does the operation the
\* worker's code performed.
C25_ChunkingIsTransparent ==
    \A k \in 1..Len(storeOps) :
        LET op == storeOps[k]
        IN  /\ \A batch \in 1..MaxBatch :
                  ScanBatches(messages,
                              [updates |-> <<>>, index |-> op.before],
                              op.start, op.end, op.unhide, batch)
                      = Unchunked(op)
            /\ storeImpl = "worker"
                  => /\ op.updates = Unchunked(op).updates
                     /\ op.after = Unchunked(op).index

\* An operation of the worker's code over more than one position, with an
\* update at its first and at its last position: batch size 1 puts them in
\* different chunks.
C25_Witness ==
    \E k \in 1..Len(storeOps) :
        /\ storeImpl = "worker"
        /\ storeOps[k].end > storeOps[k].start
        /\ Len(storeOps[k].updates) >= 2
        /\ storeOps[k].updates[1].position = storeOps[k].start
        /\ storeOps[k].updates[Len(storeOps[k].updates)].position
              > storeOps[k].start
        /\ storeOps[k].after = storeIndex

(***************************************************************************)
(* Properties of the host's hideChatMessageRange.                          *)
(***************************************************************************)
\* C26: every processRange call that hideChatMessageRange makes is for a
\* non-empty chat of length n and has 0 <= start <= end <= n - 1, whatever
\* integers the caller passed; with an empty chat no call is made and
\* nothing is posted to the worker.
C26_RangeNormalized ==
    /\ \A c \in DOMAIN calls :
          /\ Len(calls[c].messages) >= 1
          /\ 0 <= calls[c].start
          /\ calls[c].start <= calls[c].end
          /\ calls[c].end <= Len(calls[c].messages) - 1
    /\ Len(messages) = 0
          => calls = <<>> /\ operationId = 0 /\ indexPromise = NullPromise

\* A request with start beyond the chat and end below 0, made on a chat of
\* two messages, has reached the Manager as the range [0, 1].
C26_Witness ==
    /\ request.op = "indexing"
    /\ request.start > Len(messages) - 1
    /\ request.end < 0
    /\ Len(messages) = 2
    /\ calls # <<>>
    /\ calls[Len(calls)].start = 0
    /\ calls[Len(calls)].end = 1

\* C27: after hideChatMessageRange(start, end, unhide) on the non-indexed
\* path, every message of the normalized range has is_system = FALSE when
\* unhide is TRUE and is_system = TRUE when unhide is FALSE.
C27_BatchedPolarity ==
    (request.op = "batched" /\ Len(messages) > 0) =>
        LET range == NormalizeRange(Len(messages), request.start, request.end)
        IN  \A j \in range.start..range.end :
                messages[j + 1].is_system = ~request.unhide

\* C24: once the snapshot is built, no step of the Manager removes an
\* identifier from its systemMessages, whatever the host did to the
\* is_system flags between the processRange calls.
C24_SystemMessagesKept ==
    [][(index # NullIndex /\ index' # NullIndex)
          => index.systemMessages \subseteq index'.systemMessages]_vars

(***************************************************************************)
(* Properties of HideHelperCore.                                           *)
(***************************************************************************)
\* The flags the straightforward scan leaves: hidden up to hideAfterIndex,
\* visible after it.
StraightScanDone(hideAfterIndex) ==
    \A j \in 0..(Len(messages) - 1) :
        messages[j + 1].is_system = (j <= hideAfterIndex)

\* C28: after jumpScanHide(hideAfterIndex) every position of
\* [0, hideAfterIndex] is hidden and every position after it is visible,
\* whatever the flags were before.
C28_JumpScanEqualsScan ==
    request.op = "jumpScanHide" => StraightScanDone(request.hideAfterIndex)

\* C29: the changes parallelHide collects from its segment workers name
\* positions of the chat only, applying them raises no error, and afterwards
\* every position of [0, hideAfterIndex] is hidden and every position after
\* it is visible.
C29_ParallelEqualsScan ==
    request.op = "parallelHide" =>
        /\ \A u \in DOMAIN request.changes :
              request.changes[u].index \in 0..(Len(messages) - 1)
        /\ ~request.threw
        /\ StraightScanDone(request.hideAfterIndex)

====
